---- MODULE Spec2Model ----
(***************************************************************************)
(* A model of BotanyDict/database/utils/convert_to_sql.py: the pipeline    *)
(* parse_division -> parse_nodes_with_division -> get_descendants ->       *)
(* parse_names -> export_sql_with_division -> print, run once by __main__. *)
(*                                                                         *)
(* Text is a sequence of symbols.  A symbol is a one-character string      *)
(* (tab, newline, blank, pipe, single quote), a decimal numeral, or an     *)
(* atom standing for a run of ordinary characters ("a", "scientific name").*)
(* A Python dict is a sequence of <<key, value>> pairs with distinct keys, *)
(* in insertion order.                                                     *)
(***************************************************************************)
EXTENDS Integers, Sequences, FiniteSets, TLC

\* Tax ids and division ids of the input files range over 1..MaxId.
MaxId == 3
\* The file that a run varies holds at most MaxLines lines.
MaxLines == 2

Range(s) == {s[i] : i \in DOMAIN s}

\* the sequence of the values of e over 1..n
Tabulate(n, e(_)) == <<>> \o [i \in 1..n |-> e(i)]

VARIABLES
    divisionFile,   \* the lines of division.dmp
    nodesFile,      \* the lines of nodes.dmp
    namesFile,      \* the lines of names.dmp
    root,           \* get_descendants' root argument
    pc,             \* position of the run in __main__ and its callees
    pos,            \* number of items the current loop has consumed
    divisions,      \* dict division_id -> <<code, name, comment>>
    nodes,          \* dict tax_id -> <<parent_id, rank, division_id>>
    children_map,   \* dict parent_id -> sequence of child tax ids
    taxids,         \* the visited set of get_descendants
    queue,          \* the deque of get_descendants
    names,          \* dict tax_id -> scientific name
    out,            \* what has been written to taxonomy.sql, one entry per statement
    openFiles,      \* the files that are open
    error,          \* "none", or the exception that ended the run
    failedIn,       \* "none", or the function the exception was raised in
    started,        \* the functions called so far, in call order
    opened,         \* the files ever opened
    visited,        \* the ids dequeued by get_descendants, in order
    enqueued,       \* the ids ever put in the queue, in order
    stdout          \* the lines printed

vars == <<divisionFile, nodesFile, namesFile, root, pc, pos, divisions, nodes,
          children_map, taxids, queue, names, out, openFiles, error, failedIn,
          started, opened, visited, enqueued, stdout>>

inputs == <<divisionFile, nodesFile, namesFile, root>>
loaded == <<divisions, nodes, names>>
bfs == <<children_map, taxids, queue, visited, enqueued>>

----------------------------------------------------------------------------
(* Strings *)

TAB == "\t"
NL == "\n"
QUOTE == "'"
Whitespace == {" ", TAB, NL}
SEP == <<TAB, "|", TAB>>
SCIENTIFIC == <<"scientific name">>

\* the decimal numerals of one digit, and the numeral of n
DIGITS == <<"0", "1", "2", "3", "4", "5", "6", "7", "8", "9">>
Numeral(n) == DIGITS[n + 1]
Numerals == Range(DIGITS)

RECURSIVE LStrip(_)
LStrip(s) ==
    IF s # <<>> /\ Head(s) \in Whitespace THEN LStrip(Tail(s)) ELSE s

RECURSIVE RStrip(_)
RStrip(s) ==
    IF s # <<>> /\ s[Len(s)] \in Whitespace
    THEN RStrip(SubSeq(s, 1, Len(s) - 1)) ELSE s

\* str.strip()
Strip(s) == RStrip(LStrip(s))

\* the delimiter occurs in s at place i
SepAt(s, i) == i + 2 <= Len(s) /\ s[i] = TAB /\ s[i + 1] = "|" /\ s[i + 2] = TAB

\* the pieces of s from place start on, given that no delimiter begins in
\* start..(i - 1)
RECURSIVE SplitFrom(_, _, _)
SplitFrom(s, start, i) ==
    IF i > Len(s) THEN <<SubSeq(s, start, Len(s))>>
    ELSE IF SepAt(s, i)
         THEN <<SubSeq(s, start, i - 1)>> \o SplitFrom(s, i + 3, i + 3)
         ELSE SplitFrom(s, start, i + 1)

\* str.split('\t|\t'): the pieces between the non-overlapping occurrences of
\* the delimiter, scanning from the left; never an empty list.
Split(s) == SplitFrom(s, 1, 1)

\* line.strip().split('\t|\t')
Parts(line) == Split(Strip(line))

\* int(s) succeeds
IsInt(s) == Len(Strip(s)) = 1 /\ Strip(s)[1] \in Numerals

\* int(s)
IntOf(s) == LET t == Strip(s)[1] IN CHOOSE n \in 0..(Len(DIGITS) - 1) : Numeral(n) = t

\* s.replace("'", "''")
RECURSIVE Replace(_)
Replace(s) ==
    IF s = <<>> THEN <<>>
    ELSE (IF Head(s) = QUOTE THEN <<QUOTE, QUOTE>> ELSE <<Head(s)>>)
         \o Replace(Tail(s))

----------------------------------------------------------------------------
(* dict *)

Keys(d) == {d[i][1] : i \in DOMAIN d}
Has(d, k) == k \in Keys(d)
Get(d, k) == d[CHOOSE i \in DOMAIN d : d[i][1] = k][2]

\* Put as dict.setdefault would do it: an existing key keeps its value
PutKeepFirst(d, k, v) == IF Has(d, k) THEN d ELSE Append(d, <<k, v>>)

\* d[k] = v: an existing key keeps its place, a new key goes last
Put(d, k, v) ==
    IF Has(d, k)
    THEN [i \in DOMAIN d |-> IF d[i][1] = k THEN <<k, v>> ELSE d[i]]
    ELSE Append(d, <<k, v>>)

----------------------------------------------------------------------------
(* parse_division *)

\* the exception the loop body raises on a line, or "none"
DivisionLineError(line) ==
    LET parts == Parts(line)
    IN  IF ~IsInt(parts[1]) THEN "ValueError"
        ELSE IF Len(parts) < 4 THEN "IndexError"
        ELSE "none"

DivisionEntry(line) ==
    LET parts == Parts(line)
    IN  <<IntOf(parts[1]), <<Strip(parts[2]), Strip(parts[3]), Strip(parts[4])>> >>

\* WithExit of an open() without with and without close()
WithExitLeak(file) == openFiles

\* a with-block's file is closed when the block is left, also by an exception
WithExit(file) == openFiles \ {file}

\* Raise when each call of __main__ sits in a try whose except clause only
\* records the exception: the run goes on with the next call
RaiseAndGoOn(exc, fn) ==
    /\ error' = exc
    /\ failedIn' = fn
    /\ pc' = IF fn = "parse_division" THEN "parse_nodes"
             ELSE IF fn = "parse_nodes_with_division" THEN "get_descendants"
             ELSE IF fn = "parse_names" THEN "export"
             ELSE "print"

Raise(exc, fn) ==
    /\ error' = exc
    /\ failedIn' = fn
    /\ pc' = "aborted"

OpenDivision ==
    /\ pc = "parse_division"
    /\ pc' = "division_loop"
    /\ pos' = 0
    /\ divisions' = <<>>
    /\ openFiles' = openFiles \cup {"division.dmp"}
    /\ opened' = opened \cup {"division.dmp"}
    /\ started' = Append(started, "parse_division")
    /\ UNCHANGED <<inputs, nodes, names, bfs, out, error, failedIn, stdout>>

OpenDivisionFail ==
    /\ pc = "parse_division"
    /\ Raise("OSError", "parse_division")
    /\ divisions' = <<>>
    /\ started' = Append(started, "parse_division")
    /\ UNCHANGED <<inputs, pos, nodes, names, bfs, out, openFiles, opened, stdout>>

ReadDivisionLine ==
    /\ pc = "division_loop"
    /\ pos < Len(divisionFile)
    /\ LET line == divisionFile[pos + 1]
           e == DivisionEntry(line)
       IN  /\ DivisionLineError(line) = "none"
           /\ divisions' = Put(divisions, e[1], e[2])
    /\ pos' = pos + 1
    /\ UNCHANGED <<inputs, pc, nodes, names, bfs, out, openFiles, error, failedIn,
                   started, opened, stdout>>

ReadDivisionLineFail ==
    /\ pc = "division_loop"
    /\ pos < Len(divisionFile)
    /\ DivisionLineError(divisionFile[pos + 1]) # "none"
    /\ Raise(DivisionLineError(divisionFile[pos + 1]), "parse_division")
    /\ openFiles' = WithExit("division.dmp")
    /\ UNCHANGED <<inputs, pos, loaded, bfs, out, started, opened, stdout>>

CloseDivision ==
    /\ pc = "division_loop"
    /\ pos = Len(divisionFile)
    /\ openFiles' = WithExit("division.dmp")
    /\ pc' = "parse_nodes"
    /\ UNCHANGED <<inputs, pos, loaded, bfs, out, error, failedIn, started, opened,
                   stdout>>

----------------------------------------------------------------------------
(* parse_nodes_with_division *)

NodeLineError(line) ==
    LET parts == Parts(line)
    IN  IF ~IsInt(parts[1]) THEN "ValueError"
        ELSE IF Len(parts) < 2 THEN "IndexError"
        ELSE IF ~IsInt(parts[2]) THEN "ValueError"
        ELSE IF Len(parts) < 5 THEN "IndexError"
        ELSE IF ~IsInt(parts[5]) THEN "ValueError"
        ELSE "none"

NodeEntry(line) ==
    LET parts == Parts(line)
    IN  <<IntOf(parts[1]), <<IntOf(parts[2]), Strip(parts[3]), IntOf(parts[5])>> >>

OpenNodes ==
    /\ pc = "parse_nodes"
    /\ pc' = "nodes_loop"
    /\ pos' = 0
    /\ nodes' = <<>>
    /\ openFiles' = openFiles \cup {"nodes.dmp"}
    /\ opened' = opened \cup {"nodes.dmp"}
    /\ started' = Append(started, "parse_nodes_with_division")
    /\ UNCHANGED <<inputs, divisions, names, bfs, out, error, failedIn, stdout>>

OpenNodesFail ==
    /\ pc = "parse_nodes"
    /\ Raise("OSError", "parse_nodes_with_division")
    /\ nodes' = <<>>
    /\ started' = Append(started, "parse_nodes_with_division")
    /\ UNCHANGED <<inputs, pos, divisions, names, bfs, out, openFiles, opened,
                   stdout>>

ReadNodeLine ==
    /\ pc = "nodes_loop"
    /\ pos < Len(nodesFile)
    /\ LET line == nodesFile[pos + 1]
           e == NodeEntry(line)
       IN  /\ NodeLineError(line) = "none"
           /\ nodes' = Put(nodes, e[1], e[2])
    /\ pos' = pos + 1
    /\ UNCHANGED <<inputs, pc, divisions, names, bfs, out, openFiles, error,
                   failedIn, started, opened, stdout>>

ReadNodeLineFail ==
    /\ pc = "nodes_loop"
    /\ pos < Len(nodesFile)
    /\ NodeLineError(nodesFile[pos + 1]) # "none"
    /\ Raise(NodeLineError(nodesFile[pos + 1]), "parse_nodes_with_division")
    /\ openFiles' = WithExit("nodes.dmp")
    /\ UNCHANGED <<inputs, pos, loaded, bfs, out, started, opened, stdout>>

CloseNodes ==
    /\ pc = "nodes_loop"
    /\ pos = Len(nodesFile)
    /\ openFiles' = WithExit("nodes.dmp")
    /\ pc' = "get_descendants"
    /\ UNCHANGED <<inputs, pos, loaded, bfs, out, error, failedIn, started, opened,
                   stdout>>

----------------------------------------------------------------------------
(* get_descendants *)

\* children_map[parent_id].append(tax_id) on a defaultdict(list)
AddChild(cm, parent_id, tax_id) ==
    Put(cm, parent_id,
        (IF Has(cm, parent_id) THEN Get(cm, parent_id) ELSE <<>>) \o <<tax_id>>)

\* the loop over nodes.items() that fills children_map
RECURSIVE BuildChildren(_, _)
BuildChildren(items, cm) ==
    IF items = <<>> THEN cm
    ELSE BuildChildren(Tail(items), AddChild(cm, Head(items)[2][1], Head(items)[1]))

\* children_map.get(current, [])
ChildrenOf(cm, current) == IF Has(cm, current) THEN Get(cm, current) ELSE <<>>

\* Unvisited without the membership test
UnvisitedAlways(child, seen) == TRUE

\* the test that guards queue.append(child)
Unvisited(child, seen) == child \notin seen

\* NewChildren with the append after the for loop instead of in it: only one
\* child of current is appended
NewChildrenOne(cm, current, seen) ==
    LET all == SelectSeq(ChildrenOf(cm, current), LAMBDA child : child \notin seen)
    IN  IF all = <<>> THEN <<>> ELSE <<all[Len(all)]>>

\* the children the for loop appends while visiting current
NewChildren(cm, current, seen) ==
    SelectSeq(ChildrenOf(cm, current), LAMBDA child : Unvisited(child, seen))

BuildChildrenMap ==
    /\ pc = "get_descendants"
    /\ children_map' = BuildChildren(nodes, <<>>)
    /\ taxids' = {}
    /\ queue' = <<root>>
    /\ enqueued' = <<root>>
    /\ visited' = <<>>
    /\ pc' = "bfs_loop"
    /\ started' = Append(started, "get_descendants")
    /\ UNCHANGED <<inputs, pos, loaded, out, openFiles, error, failedIn, opened,
                   stdout>>

BfsVisit ==
    /\ pc = "bfs_loop"
    /\ queue # <<>>
    /\ LET current == Head(queue)
           add == NewChildren(children_map, current, taxids \cup {current})
       IN  /\ taxids' = taxids \cup {current}
           /\ queue' = Tail(queue) \o add
           /\ enqueued' = enqueued \o add
           /\ visited' = Append(visited, current)
    /\ UNCHANGED <<inputs, pc, pos, loaded, children_map, out, openFiles, error,
                   failedIn, started, opened, stdout>>

BfsReturn ==
    /\ pc = "bfs_loop"
    /\ queue = <<>>
    /\ pc' = "parse_names"
    /\ UNCHANGED <<inputs, pos, loaded, bfs, out, openFiles, error, failedIn,
                   started, opened, stdout>>

----------------------------------------------------------------------------
(* parse_names *)

NameLineError(line) ==
    LET parts == Parts(line)
    IN  IF ~IsInt(parts[1]) THEN "ValueError"
        ELSE IF Len(parts) < 4 THEN "IndexError"
        ELSE "none"

NameTaxId(line) == IntOf(Parts(line)[1])
NameText(line) == Strip(Parts(line)[2])
NameClass(line) == Strip(Parts(line)[4])

\* NameKept without the name class test
NameKeptAnyClass(line, taxid_filter) == NameTaxId(line) \in taxid_filter

\* NameKept without the subtree test
NameKeptAnyTaxon(line, taxid_filter) == NameClass(line) = SCIENTIFIC

\* the condition of the if in the loop body
NameKept(line, taxid_filter) ==
    NameTaxId(line) \in taxid_filter /\ NameClass(line) = SCIENTIFIC

OpenNames ==
    /\ pc = "parse_names"
    /\ pc' = "names_loop"
    /\ pos' = 0
    /\ names' = <<>>
    /\ openFiles' = openFiles \cup {"names.dmp"}
    /\ opened' = opened \cup {"names.dmp"}
    /\ started' = Append(started, "parse_names")
    /\ UNCHANGED <<inputs, divisions, nodes, bfs, out, error, failedIn, stdout>>

OpenNamesFail ==
    /\ pc = "parse_names"
    /\ Raise("OSError", "parse_names")
    /\ names' = <<>>
    /\ started' = Append(started, "parse_names")
    /\ UNCHANGED <<inputs, pos, divisions, nodes, bfs, out, openFiles, opened,
                   stdout>>

ReadNameLine ==
    /\ pc = "names_loop"
    /\ pos < Len(namesFile)
    /\ LET line == namesFile[pos + 1]
       IN  /\ NameLineError(line) = "none"
           /\ names' = IF NameKept(line, taxids)
                       THEN Put(names, NameTaxId(line), NameText(line))
                       ELSE names
    /\ pos' = pos + 1
    /\ UNCHANGED <<inputs, pc, divisions, nodes, bfs, out, openFiles, error,
                   failedIn, started, opened, stdout>>

ReadNameLineFail ==
    /\ pc = "names_loop"
    /\ pos < Len(namesFile)
    /\ NameLineError(namesFile[pos + 1]) # "none"
    /\ Raise(NameLineError(namesFile[pos + 1]), "parse_names")
    /\ openFiles' = WithExit("names.dmp")
    /\ UNCHANGED <<inputs, pos, loaded, bfs, out, started, opened, stdout>>

CloseNames ==
    /\ pc = "names_loop"
    /\ pos = Len(namesFile)
    /\ openFiles' = WithExit("names.dmp")
    /\ pc' = "export"
    /\ UNCHANGED <<inputs, pos, loaded, bfs, out, error, failedIn, started, opened,
                   stdout>>

----------------------------------------------------------------------------
(* export_sql_with_division *)

\* sorted(taxids)
RECURSIVE Sorted(_)
Sorted(S) ==
    IF S = {} THEN <<>>
    ELSE LET m == CHOOSE x \in S : \A y \in S : x <= y
         IN  <<m>> \o Sorted(S \ {m})

\* One entry of out: a CREATE TABLE statement (with the blank line after it),
\* an INSERT line, or a blank line.  nums are the values written unquoted and
\* strs the texts written between single quotes, both in column order.
CreateTable(table) ==
    [stmt |-> "CREATE TABLE", table |-> table, nums |-> <<>>, strs |-> <<>>]

BlankLine == [stmt |-> "", table |-> "", nums |-> <<>>, strs |-> <<>>]

\* f"INSERT INTO division VALUES ({div_id}, '{code}', '{name}', '{comment}');\n"
DivisionInsert(div_id, v) ==
    [stmt |-> "INSERT", table |-> "division", nums |-> <<div_id>>,
     strs |-> <<v[1], v[2], v[3]>>]

\* f"INSERT INTO taxon VALUES ({tax_id}, {parent_id}, '{rank_sql}', {division_id});\n"
TaxonInsert(tax_id, v) ==
    [stmt |-> "INSERT", table |-> "taxon", nums |-> <<tax_id, v[1], v[3]>>,
     strs |-> <<Replace(v[2])>>]

\* f"INSERT INTO taxon_name VALUES ({tax_id}, '{name_sql}');\n"
NameInsert(tax_id, name) ==
    [stmt |-> "INSERT", table |-> "taxon_name", nums |-> <<tax_id>>,
     strs |-> <<Replace(name)>>]

Write(entry) == out' = Append(out, entry)

OpenOutput ==
    /\ pc = "export"
    /\ pc' = "write_division_schema"
    /\ out' = <<>>
    /\ openFiles' = openFiles \cup {"taxonomy.sql"}
    /\ opened' = opened \cup {"taxonomy.sql"}
    /\ started' = Append(started, "export_sql_with_division")
    /\ UNCHANGED <<inputs, pos, loaded, bfs, error, failedIn, stdout>>

OpenOutputFail ==
    /\ pc = "export"
    /\ Raise("OSError", "export_sql_with_division")
    /\ started' = Append(started, "export_sql_with_division")
    /\ UNCHANGED <<inputs, pos, loaded, bfs, out, openFiles, opened, stdout>>

WriteDivisionSchema ==
    /\ pc = "write_division_schema"
    /\ Write(CreateTable("division"))
    /\ pc' = "write_division_rows"
    /\ pos' = 0
    /\ UNCHANGED <<inputs, loaded, bfs, openFiles, error, failedIn, started, opened,
                   stdout>>

\* WriteDivisionRow looping over sorted(divisions.items())
WriteDivisionRowSorted ==
    /\ pc = "write_division_rows"
    /\ pos < Len(divisions)
    /\ LET div_id == Sorted(Keys(divisions))[pos + 1]
       IN  Write(DivisionInsert(div_id, Get(divisions, div_id)))
    /\ pos' = pos + 1
    /\ UNCHANGED <<inputs, pc, loaded, bfs, openFiles, error, failedIn, started,
                   opened, stdout>>

WriteDivisionRow ==
    /\ pc = "write_division_rows"
    /\ pos < Len(divisions)
    /\ Write(DivisionInsert(divisions[pos + 1][1], divisions[pos + 1][2]))
    /\ pos' = pos + 1
    /\ UNCHANGED <<inputs, pc, loaded, bfs, openFiles, error, failedIn, started,
                   opened, stdout>>

WriteDivisionEnd ==
    /\ pc = "write_division_rows"
    /\ pos = Len(divisions)
    /\ Write(BlankLine)
    /\ pc' = "write_taxon_schema"
    /\ UNCHANGED <<inputs, pos, loaded, bfs, openFiles, error, failedIn, started,
                   opened, stdout>>

WriteTaxonSchema ==
    /\ pc = "write_taxon_schema"
    /\ Write(CreateTable("taxon"))
    /\ pc' = "write_taxon_name_schema"
    /\ UNCHANGED <<inputs, pos, loaded, bfs, openFiles, error, failedIn, started,
                   opened, stdout>>

WriteTaxonNameSchema ==
    /\ pc = "write_taxon_name_schema"
    /\ Write(CreateTable("taxon_name"))
    /\ pc' = "write_taxon_rows"
    /\ pos' = 0
    /\ UNCHANGED <<inputs, loaded, bfs, openFiles, error, failedIn, started, opened,
                   stdout>>

\* nodes[tax_id] raises KeyError
NodeMissing(tax_id) == ~Has(nodes, tax_id)

WriteTaxonRow ==
    /\ pc = "write_taxon_rows"
    /\ pos < Len(Sorted(taxids))
    /\ LET tax_id == Sorted(taxids)[pos + 1]
       IN  /\ ~NodeMissing(tax_id)
           /\ Write(TaxonInsert(tax_id, Get(nodes, tax_id)))
    /\ pos' = pos + 1
    /\ UNCHANGED <<inputs, pc, loaded, bfs, openFiles, error, failedIn, started,
                   opened, stdout>>

WriteTaxonRowFail ==
    /\ pc = "write_taxon_rows"
    /\ pos < Len(Sorted(taxids))
    /\ NodeMissing(Sorted(taxids)[pos + 1])
    /\ Raise("KeyError", "export_sql_with_division")
    /\ openFiles' = WithExit("taxonomy.sql")
    /\ UNCHANGED <<inputs, pos, loaded, bfs, out, started, opened, stdout>>

WriteTaxonEnd ==
    /\ pc = "write_taxon_rows"
    /\ pos = Len(Sorted(taxids))
    /\ Write(BlankLine)
    /\ pc' = "write_name_rows"
    /\ pos' = 0
    /\ UNCHANGED <<inputs, loaded, bfs, openFiles, error, failedIn, started, opened,
                   stdout>>

WriteNameRow ==
    /\ pc = "write_name_rows"
    /\ pos < Len(names)
    /\ Write(NameInsert(names[pos + 1][1], names[pos + 1][2]))
    /\ pos' = pos + 1
    /\ UNCHANGED <<inputs, pc, loaded, bfs, openFiles, error, failedIn, started,
                   opened, stdout>>

CloseOutput ==
    /\ pc = "write_name_rows"
    /\ pos = Len(names)
    /\ openFiles' = WithExit("taxonomy.sql")
    /\ pc' = "print"
    /\ UNCHANGED <<inputs, pos, loaded, bfs, out, error, failedIn, started, opened,
                   stdout>>

----------------------------------------------------------------------------
(* __main__ *)

CONFIRMATION == "SQL export complete: taxonomy.sql"

PrintComplete ==
    /\ pc = "print"
    /\ stdout' = Append(stdout, CONFIRMATION)
    /\ pc' = "done"
    /\ UNCHANGED <<inputs, pos, loaded, bfs, out, openFiles, error, failedIn,
                   started, opened>>

----------------------------------------------------------------------------
(* Input files *)

RECURSIVE Join(_)
Join(fields) ==
    IF Len(fields) = 1 THEN fields[1]
    ELSE fields[1] \o SEP \o Join(Tail(fields))

\* a line of a dump file: the fields, what follows the last field, a newline
Line(fields, end) == Join(fields) \o end \o <<NL>>

\* the mark that ends a record of the published dump files
ENDMARK == <<TAB, "|">>

PLAIN == <<"a">>
QUOTED == <<"O", QUOTE, "B">>
PADDED == <<" ", "b", " ">>
Num(n) == <<Numeral(n)>>

DivisionLines ==
    {Line(<<Num(id), PLAIN, PLAIN, comment>>, <<>>) :
        id \in 1..MaxId, comment \in {QUOTED, PADDED}}
    \cup {Line(<<Num(1), QUOTED, PLAIN, PLAIN>>, ENDMARK),
          Line(<<Num(1), PLAIN, QUOTED, PLAIN, PLAIN>>, <<>>),
          Line(<<Num(1), PLAIN, PLAIN>>, <<>>),
          Line(<<PLAIN, PLAIN, PLAIN, PLAIN>>, <<>>),
          <<NL>>}

NodeLine(id, parent, rank) ==
    Line(<<Num(id), Num(parent), rank, Num(0), Num(1)>>, <<>>)

\* a parent id is dangling when no line of the file has it as its tax id
NodeLines == {NodeLine(id, parent, PLAIN) : id \in 1..MaxId, parent \in 1..MaxId}

OddNodeLines ==
    {NodeLine(1, 1, PLAIN),
     NodeLine(1, 0, QUOTED),
     Line(<<Num(2), Num(1), PADDED, Num(0), Num(1), PLAIN, PLAIN>>, ENDMARK),
     Line(<<Num(1), Num(0), PLAIN, Num(0)>>, <<>>),
     Line(<<Num(1), PLAIN, PLAIN, Num(0), Num(1)>>, <<>>),
     Line(<<Num(1), Num(0), PLAIN, Num(0), PLAIN>>, <<>>)}

NameLines ==
    {Line(<<Num(id), text, <<>>, SCIENTIFIC>>, <<>>) :
        id \in 1..MaxId, text \in {PLAIN, QUOTED}}
    \cup {Line(<<Num(id), <<"s">>, <<>>, <<"synonym">> >>, <<>>) : id \in 1..MaxId}
    \cup {Line(<<Num(1), PADDED, <<>>, <<" ">> \o SCIENTIFIC, PLAIN>>, ENDMARK),
          Line(<<Num(1), PLAIN, <<>>, SCIENTIFIC>>, ENDMARK),
          Line(<<Num(1), PLAIN, <<>> >>, <<>>),
          Line(<<PLAIN, PLAIN, <<>>, SCIENTIFIC>>, <<>>)}

BaseDivisionFile == <<Line(<<Num(1), PLAIN, PLAIN, QUOTED>>, <<>>)>>
BaseNodesFile == <<NodeLine(1, 0, PLAIN), NodeLine(2, 1, PLAIN)>>
BaseNamesFile ==
    <<Line(<<Num(2), PLAIN, <<>>, SCIENTIFIC>>, <<>>),
      Line(<<Num(1), QUOTED, <<>>, SCIENTIFIC>>, <<>>)>>

InitRun ==
    /\ pc = "parse_division"
    /\ pos = 0
    /\ divisions = <<>>
    /\ nodes = <<>>
    /\ children_map = <<>>
    /\ taxids = {}
    /\ queue = <<>>
    /\ names = <<>>
    /\ out = <<>>
    /\ openFiles = {}
    /\ error = "none"
    /\ failedIn = "none"
    /\ started = <<>>
    /\ opened = {}
    /\ visited = <<>>
    /\ enqueued = <<>>
    /\ stdout = <<>>

\* The inputs of a run: one of the three files ranges over every file of at
\* most MaxLines lines, the other two are the base files.
InitDivisions ==
    \E k \in 0..MaxLines : \E d \in [1..k -> DivisionLines] :
        /\ divisionFile = d
        /\ nodesFile = BaseNodesFile
        /\ namesFile = BaseNamesFile
        /\ root = 1

NodeFilesWithRoot(r) ==
    \E k \in 0..MaxLines : \E n \in [1..k -> NodeLines] :
        /\ divisionFile = BaseDivisionFile
        /\ nodesFile = n
        /\ namesFile = BaseNamesFile
        /\ root = r

InitNodes == \E r \in 1..MaxId : NodeFilesWithRoot(r)

\* node files with quoted or padded ranks, further fields, and malformed lines
InitOddNodes ==
    \E k \in 0..MaxLines : \E n \in [1..k -> OddNodeLines] :
        /\ divisionFile = BaseDivisionFile
        /\ nodesFile = n
        /\ namesFile = BaseNamesFile
        /\ root = 1

InitNames ==
    \E k \in 0..MaxLines : \E n \in [1..k -> NameLines] :
        /\ divisionFile = BaseDivisionFile
        /\ nodesFile = BaseNodesFile
        /\ namesFile = n
        /\ root = 1

Init == (InitDivisions \/ InitNodes \/ InitOddNodes \/ InitNames) /\ InitRun

Next ==
    \/ OpenDivision \/ OpenDivisionFail \/ ReadDivisionLine
    \/ ReadDivisionLineFail \/ CloseDivision
    \/ OpenNodes \/ OpenNodesFail \/ ReadNodeLine \/ ReadNodeLineFail \/ CloseNodes
    \/ BuildChildrenMap \/ BfsVisit \/ BfsReturn
    \/ OpenNames \/ OpenNamesFail \/ ReadNameLine \/ ReadNameLineFail \/ CloseNames
    \/ OpenOutput \/ OpenOutputFail \/ WriteDivisionSchema \/ WriteDivisionRow
    \/ WriteDivisionEnd \/ WriteTaxonSchema \/ WriteTaxonNameSchema
    \/ WriteTaxonRow \/ WriteTaxonRowFail \/ WriteTaxonEnd \/ WriteNameRow
    \/ CloseOutput \/ PrintComplete

Spec == Init /\ [][Next]_vars

\* The runs whose root is tax id 1: what the loaders store does not depend
\* on the root.
InitLoaders ==
    (InitDivisions \/ NodeFilesWithRoot(1) \/ InitOddNodes \/ InitNames) /\ InitRun

SpecLoaders == InitLoaders /\ [][Next]_vars

----------------------------------------------------------------------------
(* Vocabulary of the properties *)

NoDuplicates(s) == \A i, j \in DOMAIN s : i # j => s[i] # s[j]
Called(fn) == fn \in Range(started)
Loaders == {"parse_division", "parse_nodes_with_division", "parse_names"}
LineErrors == {"ValueError", "IndexError"}
\* the first fields of the first k lines of file, as numbers
FirstFields(file, k) == Tabulate(k, LAMBDA i : IntOf(Parts(file[i])[1]))

\* the last place of x in s
LastIndex(s, x) ==
    CHOOSE i \in DOMAIN s : s[i] = x /\ \A j \in (i + 1)..Len(s) : s[j] # x

\* how many lines of its file a loader has stored so far
Consumed(fn, loop, file) ==
    IF pc = loop \/ (failedIn = fn /\ error \in LineErrors) THEN pos
    ELSE IF Called(fn) /\ failedIn # fn THEN Len(file)
    ELSE 0

\* get_descendants has returned
Selected == pc = "parse_names" \/ Called("parse_names")

\* export_sql_with_division has returned
Exported == pc \in {"print", "done"}

Inserts(table) ==
    SelectSeq(out, LAMBDA e : e.stmt = "INSERT" /\ e.table = table)
InsertIds(table) ==
    LET ins == Inserts(table) IN Tabulate(Len(ins), LAMBDA i : ins[i].nums[1])
KeyOrder(d) == Tabulate(Len(d), LAMBDA i : d[i][1])
IsPrefix(s, t) == Len(s) <= Len(t) /\ s = SubSeq(t, 1, Len(s))

----------------------------------------------------------------------------
(* C1 *)

ParentOf(t) == Get(nodes, t)[1]

\* following parent ids from t reaches r within n further steps
RECURSIVE ChainReaches(_, _, _)
ChainReaches(t, r, n) ==
    /\ Has(nodes, t)
    /\ \/ ParentOf(t) = r
       \/ n > 0 /\ ChainReaches(ParentOf(t), r, n - 1)

Descendants(r) == {t \in Keys(nodes) : ChainReaches(t, r, Len(nodes))}

\* C1: when get_descendants has returned, its result is exactly the root
\* together with every tax id of the node mapping whose chain of parent ids
\* reaches the root; the root is in it whether or not it has a record.
C1_SubtreeExact == Selected => taxids = {root} \cup Descendants(root)

\* the root has no record, and the result holds a grandchild of the root
C1_Witness ==
    /\ Selected
    /\ ~Has(nodes, root)
    /\ \E t \in taxids : t # root /\ ParentOf(t) # root

----------------------------------------------------------------------------
(* C2 *)

\* every single quote of s is one of a pair of consecutive single quotes
RECURSIVE QuotesDoubled(_)
QuotesDoubled(s) ==
    IF s = <<>> THEN TRUE
    ELSE IF Head(s) # QUOTE THEN QuotesDoubled(Tail(s))
    ELSE Len(s) >= 2 /\ s[2] = QUOTE /\ QuotesDoubled(SubSeq(s, 3, Len(s)))

\* C2: in every INSERT written, no string literal's content holds an isolated
\* single quote (division code, name and comment, taxon rank, scientific name).
C2_AllStringsEscaped ==
    \A i \in DOMAIN out :
        out[i].stmt = "INSERT" =>
            \A j \in DOMAIN out[i].strs : QuotesDoubled(out[i].strs[j])

----------------------------------------------------------------------------
(* C3 *)

\* C3: when export_sql_with_division has ended, by returning or by raising
\* in its loops, the taxon INSERTs are those of the ids of the subtree set,
\* one each, in ascending order.
C3_OneTaxonInsertPerSelected ==
    (Exported \/ error = "KeyError") => InsertIds("taxon") = Sorted(taxids)

----------------------------------------------------------------------------
(* C4 *)

NamesConsumed == Consumed("parse_names", "names_loop", namesFile)

\* per line among the parsed lines: the tax id when the record's class is
\* "scientific name", and 0 otherwise
ScientificIds(parsed) ==
    Tabulate(Len(parsed), LAMBDA i : IF Strip(parsed[i][4]) = SCIENTIFIC
                                     THEN IntOf(parsed[i][1]) ELSE 0)

\* C4: after any number of name records read, names has a key for t iff t is
\* in the subtree set and some record read for t has name class "scientific
\* name", and its value is the trimmed name text of the last such record.
C4_NamesLastScientific ==
    LET parsed == Tabulate(NamesConsumed, LAMBDA i : Parts(namesFile[i]))
        sci == ScientificIds(parsed)
    IN  /\ Keys(names) = taxids \cap (Range(sci) \ {0})
        /\ NoDuplicates(KeyOrder(names))
        /\ \A i \in DOMAIN names :
              names[i][2] = Strip(parsed[LastIndex(sci, names[i][1])][2])

\* two records of one selected taxon were read, a scientific name and then
\* a record of another class with another text
C4_Witness ==
    /\ Exported
    /\ Len(namesFile) = 2
    /\ \E t \in taxids :
          /\ ScientificIds(<<Parts(namesFile[1]), Parts(namesFile[2])>>) = <<t, 0>>
          /\ IntOf(Parts(namesFile[2])[1]) = t
          /\ Parts(namesFile[2])[2] # Parts(namesFile[1])[2]
          /\ Has(names, t)

----------------------------------------------------------------------------
(* C5 *)

Statements == SelectSeq(out, LAMBDA e : e.stmt # "")

Phase(e) ==
    IF e.stmt = "CREATE TABLE"
    THEN (IF e.table = "division" THEN 1 ELSE IF e.table = "taxon" THEN 3 ELSE 4)
    ELSE (IF e.table = "division" THEN 2 ELSE IF e.table = "taxon" THEN 5 ELSE 6)

\* C5: what has been written so far is, in this order: the division CREATE
\* TABLE, the division INSERTs in the order of the division mapping, the taxon
\* CREATE TABLE, the taxon_name CREATE TABLE, the taxon INSERTs, the taxon_name
\* INSERTs in the order of the name mapping; a later part begins only when the
\* parts before it are complete.
C5_WriteOrder ==
    LET st == Statements
        ph == Tabulate(Len(st), LAMBDA i : Phase(st[i]))
        has(p) == \E i \in DOMAIN ph : ph[i] = p
        later(p) == \E i \in DOMAIN ph : ph[i] > p
        division_ids == InsertIds("division")
        taxon_ids == InsertIds("taxon")
    IN  /\ \A i, j \in DOMAIN ph : i < j => ph[i] <= ph[j]
        /\ \A i, j \in DOMAIN ph : i < j /\ ph[i] = ph[j] => ph[i] \in {2, 5, 6}
        /\ \A p \in {1, 3, 4} : later(p) => has(p)
        /\ IsPrefix(division_ids, KeyOrder(divisions))
        /\ later(2) => division_ids = KeyOrder(divisions)
        /\ IsPrefix(taxon_ids, Sorted(taxids))
        /\ later(5) => taxon_ids = Sorted(taxids)
        /\ IsPrefix(InsertIds("taxon_name"), KeyOrder(names))

\* a finished export with two divisions and two names, neither in id order
C5_Witness ==
    /\ Exported
    /\ Len(InsertIds("taxon")) >= 2
    /\ \E t \in {"division", "taxon_name"} :
          /\ Len(InsertIds(t)) = 2
          /\ InsertIds(t)[1] > InsertIds(t)[2]

----------------------------------------------------------------------------
(* C6 *)

\* C6: once a loader has raised, the run is over: no function was called
\* after it, taxonomy.sql was never opened, nothing is written or printed.
\* The confirmation is printed once, only after export_sql_with_division has
\* written every row and closed the file.
C6_ErrorAborts ==
    /\ failedIn \in Loaders =>
          /\ pc = "aborted"
          /\ started[Len(started)] = failedIn
          /\ "taxonomy.sql" \notin opened
          /\ out = <<>>
          /\ stdout = <<>>
    /\ error # "none" => pc = "aborted" /\ stdout = <<>>
    /\ stdout # <<>> =>
          /\ stdout = <<CONFIRMATION>>
          /\ pc = "done"
          /\ started[Len(started)] = "export_sql_with_division"
          /\ "taxonomy.sql" \notin openFiles
          /\ Len(out) = 5 + Len(divisions) + Cardinality(taxids) + Len(names)
          /\ out # <<>> /\ out[Len(out)].table \in {"taxon_name", ""}

\* parse_names raised on a malformed line, after the stages before it ran
C6_Witness ==
    /\ failedIn = "parse_names"
    /\ error \in LineErrors
    /\ pos >= 1
    /\ Called("get_descendants")

----------------------------------------------------------------------------
(* C7 *)

FileOf ==
    [division_loop |-> "division.dmp", nodes_loop |-> "nodes.dmp",
     names_loop |-> "names.dmp",
     write_division_schema |-> "taxonomy.sql", write_division_rows |-> "taxonomy.sql",
     write_taxon_schema |-> "taxonomy.sql", write_taxon_name_schema |-> "taxonomy.sql",
     write_taxon_rows |-> "taxonomy.sql", write_name_rows |-> "taxonomy.sql"]

\* C7: a file is open exactly while the run is inside the with-block that
\* opened it, so at most one file is open, and none once the run has ended,
\* by success or by an error.
C7_FilesScoped ==
    /\ Cardinality(openFiles) <= 1
    /\ openFiles = IF pc \in DOMAIN FileOf THEN {FileOf[pc]} ELSE {}
    /\ pc \in {"done", "aborted"} => openFiles = {}

\* an error raised inside a with-block, after the file was opened
C7_Witness ==
    /\ pc = "aborted"
    /\ error \in LineErrors \cup {"KeyError"}
    /\ opened # {}

----------------------------------------------------------------------------
(* C8 *)

\* C8: no id is dequeued twice and none is put in the queue twice; the ids
\* marked visited are exactly those dequeued, the queue holds the ids put in
\* it and not yet dequeued, and get_descendants returns with the queue empty,
\* after at most one visit per record besides the root's.
C8_VisitOnce ==
    /\ NoDuplicates(visited)
    /\ NoDuplicates(enqueued)
    /\ taxids = Range(visited)
    /\ enqueued = visited \o queue
    /\ Len(enqueued) <= Len(nodes) + 1
    /\ Selected => queue = <<>>

\* the parent ids form a cycle through the root
C8_Witness ==
    /\ Selected
    /\ Has(nodes, root)
    /\ ParentOf(root) \in taxids
    /\ Has(children_map, root)

----------------------------------------------------------------------------
(* C9 *)

\* d holds one entry per id of the first k lines of file, which is what
\* Fields makes of the last line of that id
LastWins(d, file, k, Fields(_)) ==
    LET parsed == Tabulate(k, LAMBDA i : Parts(file[i]))
        ids == Tabulate(k, LAMBDA i : IntOf(parsed[i][1]))
    IN  /\ NoDuplicates(KeyOrder(d))
        /\ Keys(d) = Range(ids)
        /\ \A i \in DOMAIN d : d[i][2] = Fields(parsed[LastIndex(ids, d[i][1])])

\* C9: after any number of records read, divisions (resp. nodes) holds exactly
\* one entry per distinct id read, with the fields of the last record of that
\* id; a finished export has one division INSERT per distinct division id.
C9_LastRecordWins ==
    /\ LastWins(divisions, divisionFile,
                Consumed("parse_division", "division_loop", divisionFile),
                LAMBDA f : <<Strip(f[2]), Strip(f[3]), Strip(f[4])>>)
    /\ LastWins(nodes, nodesFile,
                Consumed("parse_nodes_with_division", "nodes_loop", nodesFile),
                LAMBDA f : <<IntOf(f[2]), Strip(f[3]), IntOf(f[5])>>)
    /\ Exported =>
          /\ NoDuplicates(InsertIds("division"))
          /\ Range(InsertIds("division"))
                = Range(FirstFields(divisionFile, Len(divisionFile)))

\* a finished run whose division file repeats an id with other fields
C9_Witness ==
    /\ Exported
    /\ Len(divisionFile) = 2
    /\ Len(divisions) = 1
    /\ divisionFile[1] # divisionFile[2]
    /\ Len(InsertIds("division")) = 1

----------------------------------------------------------------------------
(* C10 *)

\* C10: in a run that completes, every tax id of a taxon_name INSERT is the
\* tax id of exactly one taxon INSERT, and the parent id of every taxon INSERT
\* but the root's is the tax id of a taxon INSERT.
C10_ReferentialIntegrity ==
    pc = "done" =>
        LET taxa == Inserts("taxon")
        IN  /\ \A i \in DOMAIN Inserts("taxon_name") :
                  Cardinality({j \in DOMAIN taxa :
                      taxa[j].nums[1] = Inserts("taxon_name")[i].nums[1]}) = 1
            /\ \A j \in DOMAIN taxa :
                  taxa[j].nums[1] # root =>
                      \E k \in DOMAIN taxa : taxa[k].nums[1] = taxa[j].nums[2]

\* a completed run with a named taxon below the root
C10_Witness ==
    /\ pc = "done"
    /\ \E i \in DOMAIN Inserts("taxon_name") : Inserts("taxon_name")[i].nums[1] # root
    /\ \E e \in Range(namesFile) :
          NameLineError(e) = "none" /\ NameTaxId(e) \notin taxids

====
